---- MODULE Spec2Model ----
(***************************************************************************)
(* SafeACS edge node: the deterministic GuardrailEngine                    *)
(* (edge_node/guardrails.py), the heuristic detector client                *)
(* (edge_node/claude_client.py) and the bimodal DecisionRouter             *)
(* (edge_node/decision_router.py).                                         *)
(*                                                                         *)
(* Units.  Floats of the program are modelled as scaled integers:          *)
(*   wheel rpm            1 rpm                                            *)
(*   angular rates        0.1 deg/s      (5.0 deg/s  = 50)                 *)
(*   quaternion parts     0.001          (1.0 = 1000, tolerance 0.01 = 10) *)
(*   raw confidence       0.00001        (as sent by the detector)         *)
(*   confidence/threshold 0.0001         (after round(v, 4))               *)
(* Optional[T] values are sequences of length 0 (None) or 1.               *)
(***************************************************************************)
EXTENDS Integers, Sequences, FiniteSets, TLC

\* ------------------------------------------------------------------------
\* Bounds of the exploration
\* ------------------------------------------------------------------------
MaxTicks == 4
MaxWindow == 2
MaxCapacity == 2
MaxLogs == 4
MaxRecords == 2

\* ------------------------------------------------------------------------
\* Program constants
\* ------------------------------------------------------------------------
WheelLimit == 6000
RateLimit == 50
QuatUnit == 1000
QuatTolerance == 10
ConfidenceMax == 10000
DefaultThreshold == 6500

TYPE_2_ACTIONS ==
    {"CONTINUE_MONITORING", "INCREASE_SAMPLING_RATE", "SOFT_RESET_WHEEL_1",
     "SOFT_RESET_WHEEL_2", "SOFT_RESET_WHEEL_3"}

TYPE_1_ACTIONS == {"ALERT_OPERATOR_MARGINAL", "ALERT_OPERATOR_CRITICAL"}

None == << >>
Some(x) == << x >>

Abs(n) == IF n < 0 THEN -n ELSE n

\* ------------------------------------------------------------------------
\* guardrails.py
\* ------------------------------------------------------------------------
GuardrailViolation(f, obs, lim, sev, act) ==
    [field |-> f, observed_value |-> obs, limit_value |-> lim,
     severity |-> sev, action_type |-> act]

WheelValidates_Strict(wv) == wv.ok /\ wv.rpm > -WheelLimit /\ wv.rpm < WheelLimit

\* Pydantic construction of MomentumWheelStateGuardrail(wheel_id, rpm):
\* rpm must be numeric and satisfy ge=-6000, le=6000.
WheelValidates(wv) == wv.ok /\ wv.rpm >= -WheelLimit /\ wv.rpm <= WheelLimit

\* MomentumWheelStateGuardrail.check
WheelCheck(i, rpm) ==
    IF Abs(rpm) > WheelLimit
    THEN << GuardrailViolation("rw_rpms.wheel_" \o ToString(i), rpm, WheelLimit,
                               "CATASTROPHIC", "TYPE_1_IRREVERSIBLE") >>
    ELSE << >>

\* Pydantic construction of AngularRateGuardrail(**ar): a mapping whose
\* roll, pitch and yaw are numeric and within ge=-5.0, le=5.0.
RateInField_Strict(v) == v > -RateLimit /\ v < RateLimit
RateInField(v) == v >= -RateLimit /\ v <= RateLimit

RatesValidate(ar) ==
    /\ ar.kind = "dict"
    /\ RateInField(ar.roll) /\ RateInField(ar.pitch) /\ RateInField(ar.yaw)

RateAxisCheck(axis, value) ==
    IF Abs(value) > RateLimit
    THEN << GuardrailViolation("angular_rates." \o axis, value, RateLimit,
                               "CRITICAL", "TYPE_1_IRREVERSIBLE") >>
    ELSE << >>

\* AngularRateGuardrail.check
RatesCheck(ar) ==
    RateAxisCheck("roll", ar.roll) \o RateAxisCheck("pitch", ar.pitch)
        \o RateAxisCheck("yaw", ar.yaw)

\* w^2 + x^2 + y^2 + z^2, in units of 1e-6
NormSquared(q) == q.w * q.w + q.x * q.x + q.y * q.y + q.z * q.z

\* abs(sqrt(s) - 1.0) > 0.01, decided on the squares
NormOutOfTolerance(q) ==
    \/ NormSquared(q) > (QuatUnit + QuatTolerance) * (QuatUnit + QuatTolerance)
    \/ NormSquared(q) < (QuatUnit - QuatTolerance) * (QuatUnit - QuatTolerance)

\* floor(sqrt(s)), the norm in units of 1e-3
Norm(q) == CHOOSE n \in 0..(4 * QuatUnit) :
               n * n <= NormSquared(q) /\ NormSquared(q) < (n + 1) * (n + 1)

\* Pydantic construction of QuaternionNormGuardrail(**q), validate_norm
\* included: a mapping with numeric w, x, y, z whose norm is within tolerance.
QuaternionValidates(q) == q.kind = "dict" /\ ~NormOutOfTolerance(q)

\* QuaternionNormGuardrail.check
QuaternionCheck(q) ==
    IF NormOutOfTolerance(q)
    THEN << GuardrailViolation("attitude_q.norm", Norm(q), QuatUnit,
                               "CATASTROPHIC", "TYPE_1_IRREVERSIBLE") >>
    ELSE << >>

EvaluateQuaternion_FailOpen(q) ==
    IF QuaternionValidates(q) THEN QuaternionCheck(q) ELSE << >>

\* GuardrailEngine.evaluate, quaternion block (try/except Exception)
EvaluateQuaternion(q) ==
    IF QuaternionValidates(q)
    THEN QuaternionCheck(q)
    ELSE << GuardrailViolation("attitude_q", 0, QuatUnit,
                               "CATASTROPHIC", "TYPE_1_IRREVERSIBLE") >>

\* GuardrailEngine.evaluate, angular-rate block (try/except Exception)
EvaluateRates(ar) ==
    IF RatesValidate(ar)
    THEN RatesCheck(ar)
    ELSE << GuardrailViolation("angular_rates", 0, RateLimit,
                               "CRITICAL", "TYPE_1_IRREVERSIBLE") >>

\* GuardrailEngine.evaluate, body of the wheel loop for entry i
EvaluateWheel(i, wv) ==
    IF WheelValidates(wv)
    THEN WheelCheck(i, wv.rpm)
    ELSE << GuardrailViolation("rw_rpms.wheel_" \o ToString(i), 0, WheelLimit,
                               "CATASTROPHIC", "TYPE_1_IRREVERSIBLE") >>

\* telemetry.get("rw_rpms", {}): an absent key reads as the empty mapping
WheelEntries(rw) == IF rw.kind = "absent" THEN << >> ELSE rw.wheels

RECURSIVE EvaluateWheelsFrom(_, _)
EvaluateWheelsFrom(ws, i) ==
    IF i > Len(ws) THEN << >>
    ELSE EvaluateWheel(i, ws[i]) \o EvaluateWheelsFrom(ws, i + 1)

\* GuardrailEngine.evaluate, wheel loop: for i, (key, rpm) in enumerate(rw.items(), 1)
EvaluateWheels(rw) == EvaluateWheelsFrom(WheelEntries(rw), 1)

\* rw.items() raises AttributeError (outside every try block) when rw_rpms is
\* present but is not a mapping (null, a number, a string, a list).
EvaluateRaises(t) == t.rw_rpms.kind = "notdict"

Violations_ShortCircuit(t) ==
    IF EvaluateQuaternion(t.attitude_q) # << >>
    THEN EvaluateQuaternion(t.attitude_q)
    ELSE IF EvaluateRates(t.angular_rates) # << >>
    THEN EvaluateRates(t.angular_rates)
    ELSE EvaluateWheels(t.rw_rpms)

\* GuardrailEngine.evaluate: the violations list, in the order of the blocks
Violations(t) ==
    EvaluateQuaternion(t.attitude_q) \o EvaluateRates(t.angular_rates)
        \o EvaluateWheels(t.rw_rpms)

evaluate_CallKeyed(t) ==
    LET violations == IF t.timestamp_ns % 2 = 0 THEN Violations(t) ELSE << >> IN
    [passed |-> Len(violations) = 0,
     violations |-> violations,
     has_fatal_violation |->
         \E k \in 1..Len(violations) : violations[k].severity = "CATASTROPHIC",
     requires_type_1_action |->
         \E k \in 1..Len(violations) : violations[k].action_type = "TYPE_1_IRREVERSIBLE"]

evaluate_PassedUnlessFatal(t) ==
    LET violations == Violations(t) IN
    [passed |->
         ~\E k \in 1..Len(violations) : violations[k].severity = "CATASTROPHIC",
     violations |-> violations,
     has_fatal_violation |->
         \E k \in 1..Len(violations) : violations[k].severity = "CATASTROPHIC",
     requires_type_1_action |->
         \E k \in 1..Len(violations) : violations[k].action_type = "TYPE_1_IRREVERSIBLE"]

evaluate_AllFatal(t) ==
    LET violations == Violations(t) IN
    [passed |-> Len(violations) = 0,
     violations |-> violations,
     has_fatal_violation |->
         /\ Len(violations) > 0
         /\ \A k \in 1..Len(violations) : violations[k].severity = "CATASTROPHIC",
     requires_type_1_action |->
         \E k \in 1..Len(violations) : violations[k].action_type = "TYPE_1_IRREVERSIBLE"]

\* GuardrailEngine.evaluate (when it returns)
evaluate(t) ==
    LET violations == Violations(t) IN
    [passed |-> Len(violations) = 0,
     violations |-> violations,
     has_fatal_violation |->
         \E k \in 1..Len(violations) : violations[k].severity = "CATASTROPHIC",
     requires_type_1_action |->
         \E k \in 1..Len(violations) : violations[k].action_type = "TYPE_1_IRREVERSIBLE"]

\* ------------------------------------------------------------------------
\* claude_client.py
\* ------------------------------------------------------------------------
\* Field(ge=0.0, le=1.0) and the range test of LLMAnalysis.validate_confidence,
\* on the raw confidence (units of 1e-5)
ConfidenceInRange(raw) == raw >= 0 /\ raw <= 10 * ConfidenceMax

\* round(v, 4): raw confidence (1e-5) to the nearest 1e-4, ties to even
Round4(raw) ==
    LET q == raw \div 10
        r == raw % 10
    IN  IF r < 5 THEN q
        ELSE IF r > 5 THEN q + 1
        ELSE IF q % 2 = 0 THEN q ELSE q + 1

\* LLMAnalysis.validate_confidence (on a value that is in range)
validate_confidence(raw) == Round4(raw)

\* LLMAnalysis(**raw_output) validates: every required field present and of
\* its type, and the confidence within [0, 1]
LLMAnalysisValidates(input) == input.complete /\ ConfidenceInRange(input.confidence)

\* The validated LLMAnalysis
LLMAnalysis(input) ==
    [anomaly_detected |-> input.anomaly_detected,
     confidence |-> validate_confidence(input.confidence),
     recommended_action |-> input.recommended_action]

\* ClaudeAnomalyDetector.analyze: the exception it raises, "" when it returns.
\*   messages.create fails              -> anthropic.APIError
\*   no tool_use block in the response  -> RuntimeError
\*   a tool other than report_anomaly_analysis -> RuntimeError
\*   LLMAnalysis(**raw_output) rejects  -> pydantic.ValidationError (a ValueError)
AnalyzeException(resp) ==
    IF resp.kind = "api_error" THEN "APIError"
    ELSE IF resp.kind = "no_tool" THEN "RuntimeError"
    ELSE IF resp.kind = "wrong_tool" THEN "RuntimeError"
    ELSE IF ~LLMAnalysisValidates(resp.input) THEN "ValidationError"
    ELSE ""

\* ClaudeAnomalyDetector.analyze: the report it returns
analyze(resp) == LLMAnalysis(resp.input)

\* ------------------------------------------------------------------------
\* decision_router.py
\* ------------------------------------------------------------------------
DecisionEvent(outcome, ts, report, analysis, proposed, approved, human) ==
    [outcome |-> outcome,
     telemetry_timestamp_ns |-> ts,
     guardrail_report |-> report,
     llm_analysis |-> analysis,
     proposed_action |-> proposed,
     actuation_approved |-> approved,
     requires_human_approval |-> human]

Returned(ev) == [exception |-> "", event |-> Some(ev)]
Raised(exc) == [exception |-> exc, event |-> None]

\* DecisionRouter._handle_guardrail_violation
handle_guardrail_violation(report, ts) ==
    IF report.has_fatal_violation
    THEN DecisionEvent("GUARDRAIL_VIOLATION_FATAL", ts, Some(report), None, None,
                       TRUE, TRUE)
    ELSE DecisionEvent("GUARDRAIL_VIOLATION_CRITICAL", ts, Some(report), None, None,
                       FALSE, TRUE)

DequeAppend_Unbounded(d, x, maxlen) == Append(d, x)

DequeAppend_Left(d, x, maxlen) ==
    IF maxlen = 0 THEN d
    ELSE IF Len(d) >= maxlen THEN << x >> \o SubSeq(d, 1, Len(d) - 1)
    ELSE << x >> \o d
\* collections.deque(maxlen=n).append
DequeAppend(d, x, maxlen) ==
    IF maxlen = 0 THEN d
    ELSE IF Len(d) >= maxlen THEN Tail(d) \o << x >>
    ELSE Append(d, x)

Classify_NoThreshold(analysis, threshold, ts, report) ==
    IF ~analysis.anomaly_detected
    THEN DecisionEvent("GUARDRAIL_PASS_LLM_NOMINAL", ts, Some(report), Some(analysis),
                       Some(analysis.recommended_action), FALSE, FALSE)
    ELSE IF analysis.recommended_action \in TYPE_2_ACTIONS
    THEN DecisionEvent("GUARDRAIL_PASS_LLM_ANOMALY_TYPE2", ts, Some(report),
                       Some(analysis), Some(analysis.recommended_action), TRUE, FALSE)
    ELSE IF analysis.recommended_action \in TYPE_1_ACTIONS
    THEN DecisionEvent("GUARDRAIL_PASS_LLM_ANOMALY_TYPE1", ts, Some(report),
                       Some(analysis), Some(analysis.recommended_action), FALSE, TRUE)
    ELSE DecisionEvent("LLM_TRUST_BOUNDARY_VIOLATION", ts, Some(report),
                       Some(analysis), Some(analysis.recommended_action), FALSE, TRUE)

Classify_UnknownActuated(analysis, threshold, ts, report) ==
    IF ~analysis.anomaly_detected \/ analysis.confidence < threshold
    THEN DecisionEvent("GUARDRAIL_PASS_LLM_NOMINAL", ts, Some(report), Some(analysis),
                       Some(analysis.recommended_action), FALSE, FALSE)
    ELSE IF analysis.recommended_action \in TYPE_1_ACTIONS
    THEN DecisionEvent("GUARDRAIL_PASS_LLM_ANOMALY_TYPE1", ts, Some(report),
                       Some(analysis), Some(analysis.recommended_action), FALSE, TRUE)
    ELSE DecisionEvent("GUARDRAIL_PASS_LLM_ANOMALY_TYPE2", ts, Some(report),
                       Some(analysis), Some(analysis.recommended_action), TRUE, FALSE)

Classify_UnknownNominal(analysis, threshold, ts, report) ==
    IF ~analysis.anomaly_detected \/ analysis.confidence < threshold
    THEN DecisionEvent("GUARDRAIL_PASS_LLM_NOMINAL", ts, Some(report), Some(analysis),
                       Some(analysis.recommended_action), FALSE, FALSE)
    ELSE IF analysis.recommended_action \in TYPE_2_ACTIONS
    THEN DecisionEvent("GUARDRAIL_PASS_LLM_ANOMALY_TYPE2", ts, Some(report),
                       Some(analysis), Some(analysis.recommended_action), TRUE, FALSE)
    ELSE IF analysis.recommended_action \in TYPE_1_ACTIONS
    THEN DecisionEvent("GUARDRAIL_PASS_LLM_ANOMALY_TYPE1", ts, Some(report),
                       Some(analysis), Some(analysis.recommended_action), FALSE, TRUE)
    ELSE DecisionEvent("GUARDRAIL_PASS_LLM_NOMINAL", ts, Some(report), Some(analysis),
                       Some(analysis.recommended_action), FALSE, FALSE)

Classify_NominalNeedsBoth(analysis, threshold, ts, report) ==
    IF ~analysis.anomaly_detected /\ analysis.confidence < threshold
    THEN DecisionEvent("GUARDRAIL_PASS_LLM_NOMINAL", ts, Some(report), Some(analysis),
                       Some(analysis.recommended_action), FALSE, FALSE)
    ELSE IF analysis.recommended_action \in TYPE_2_ACTIONS
    THEN DecisionEvent("GUARDRAIL_PASS_LLM_ANOMALY_TYPE2", ts, Some(report),
                       Some(analysis), Some(analysis.recommended_action), TRUE, FALSE)
    ELSE IF analysis.recommended_action \in TYPE_1_ACTIONS
    THEN DecisionEvent("GUARDRAIL_PASS_LLM_ANOMALY_TYPE1", ts, Some(report),
                       Some(analysis), Some(analysis.recommended_action), FALSE, TRUE)
    ELSE DecisionEvent("LLM_TRUST_BOUNDARY_VIOLATION", ts, Some(report),
                       Some(analysis), Some(analysis.recommended_action), FALSE, TRUE)

Classify_StrictThreshold(analysis, threshold, ts, report) ==
    IF ~analysis.anomaly_detected \/ analysis.confidence <= threshold
    THEN DecisionEvent("GUARDRAIL_PASS_LLM_NOMINAL", ts, Some(report), Some(analysis),
                       Some(analysis.recommended_action), FALSE, FALSE)
    ELSE IF analysis.recommended_action \in TYPE_2_ACTIONS
    THEN DecisionEvent("GUARDRAIL_PASS_LLM_ANOMALY_TYPE2", ts, Some(report),
                       Some(analysis), Some(analysis.recommended_action), TRUE, FALSE)
    ELSE IF analysis.recommended_action \in TYPE_1_ACTIONS
    THEN DecisionEvent("GUARDRAIL_PASS_LLM_ANOMALY_TYPE1", ts, Some(report),
                       Some(analysis), Some(analysis.recommended_action), FALSE, TRUE)
    ELSE DecisionEvent("LLM_TRUST_BOUNDARY_VIOLATION", ts, Some(report),
                       Some(analysis), Some(analysis.recommended_action), FALSE, TRUE)

\* DecisionRouter.process, stage 3: classification of a validated report
Classify(analysis, threshold, ts, report) ==
    IF ~analysis.anomaly_detected \/ analysis.confidence < threshold
    THEN DecisionEvent("GUARDRAIL_PASS_LLM_NOMINAL", ts, Some(report), Some(analysis),
                       Some(analysis.recommended_action), FALSE, FALSE)
    ELSE IF analysis.recommended_action \in TYPE_2_ACTIONS
    THEN DecisionEvent("GUARDRAIL_PASS_LLM_ANOMALY_TYPE2", ts, Some(report),
                       Some(analysis), Some(analysis.recommended_action), TRUE, FALSE)
    ELSE IF analysis.recommended_action \in TYPE_1_ACTIONS
    THEN DecisionEvent("GUARDRAIL_PASS_LLM_ANOMALY_TYPE1", ts, Some(report),
                       Some(analysis), Some(analysis.recommended_action), FALSE, TRUE)
    ELSE DecisionEvent("LLM_TRUST_BOUNDARY_VIOLATION", ts, Some(report),
                       Some(analysis), Some(analysis.recommended_action), FALSE, TRUE)

\* DecisionRouter.process, the dispatch: try analyze / except RuntimeError
Dispatch(resp, threshold, ts, report) ==
    IF AnalyzeException(resp) = "RuntimeError"
    THEN Returned(DecisionEvent("LLM_TRUST_BOUNDARY_VIOLATION", ts, Some(report),
                                None, None, FALSE, TRUE))
    ELSE IF AnalyzeException(resp) # ""
    THEN Raised(AnalyzeException(resp))
    ELSE Returned(Classify(analyze(resp), threshold, ts, report))

WindowFull_NeverFull(enabled, window, size) == enabled /\ ~(Len(window) <= size)
WindowFull_Early(enabled, window, size) == enabled /\ ~(Len(window) < size - 1)
WindowFull_IgnoresDisabled(enabled, window, size) == ~(Len(window) < size)
\* The window is full after the append: self.claude is not None and
\* len(self._telemetry_window) >= self.llm_window_size
WindowFull(enabled, window, size) == enabled /\ ~(Len(window) < size)

\* The test that ends the call on the violation path: if not report.passed
ViolationPath_FatalOnly(rep) == ~rep.passed /\ rep.has_fatal_violation
ViolationPath(rep) == ~rep.passed

DecodeFailureEvent_Unreviewed ==
    DecisionEvent("GUARDRAIL_VIOLATION_CRITICAL", None, None, None, None, FALSE, FALSE)

\* DecisionRouter.process: the event returned on json.JSONDecodeError
DecodeFailureEvent ==
    DecisionEvent("GUARDRAIL_VIOLATION_FATAL", None, None, None, None, FALSE, TRUE)

Stages12_AppendFirst(rawin, window, size, enabled) ==
    IF rawin.kind = "undecodable"
    THEN [result |-> Some(Returned(DecodeFailureEvent)),
          window |-> window, report |-> None, snapshot |-> None]
    ELSE IF rawin.kind = "nonobject"
    THEN [result |-> Some(Raised("AttributeError")),
          window |-> window, report |-> None, snapshot |-> None]
    ELSE
    LET telemetry == rawin.frame
        ts == Some(telemetry.timestamp_ns)
    IN  IF EvaluateRaises(telemetry)
        THEN [result |-> Some(Raised("AttributeError")),
              window |-> window, report |-> None, snapshot |-> None]
        ELSE
        LET rep == evaluate(telemetry)
            appended == DequeAppend(window, telemetry, size)
        IN  IF ViolationPath(rep)
            THEN [result |-> Some(Returned(handle_guardrail_violation(rep, ts))),
                  window |-> appended, report |-> Some(rep), snapshot |-> None]
            ELSE IF ~WindowFull(enabled, appended, size)
            THEN [result |-> Some(Returned(DecisionEvent("GUARDRAIL_PASS_LLM_SKIPPED",
                                                         ts, Some(rep), None, None,
                                                         FALSE, FALSE))),
                  window |-> appended, report |-> Some(rep), snapshot |-> None]
            ELSE [result |-> None, window |-> << >>, report |-> Some(rep),
                  snapshot |-> Some(appended)]

\* DecisionRouter.process up to the call of self.claude.analyze (stages 1 and
\* 2), as a function of the raw input and the router's state.  The outcome
\* names the call's result (None while the detector's answer is pending), the
\* window it leaves, the report of the Constraint Engine (if it returned one)
\* and the snapshot handed to the detector (if it is invoked).
Stages12(rawin, window, size, enabled) ==
    IF rawin.kind = "undecodable"
    THEN [result |-> Some(Returned(DecodeFailureEvent)),
          window |-> window, report |-> None, snapshot |-> None]
    ELSE IF rawin.kind = "nonobject"
    THEN [result |-> Some(Raised("AttributeError")),
          window |-> window, report |-> None, snapshot |-> None]
    ELSE
    LET telemetry == rawin.frame
        ts == Some(telemetry.timestamp_ns)
    IN  IF EvaluateRaises(telemetry)
        THEN [result |-> Some(Raised("AttributeError")),
              window |-> window, report |-> None, snapshot |-> None]
        ELSE
        LET rep == evaluate(telemetry)
            appended == DequeAppend(window, telemetry, size)
        IN  IF ViolationPath(rep)
            THEN [result |-> Some(Returned(handle_guardrail_violation(rep, ts))),
                  window |-> window, report |-> Some(rep), snapshot |-> None]
            ELSE IF ~WindowFull(enabled, appended, size)
            THEN [result |-> Some(Returned(DecisionEvent("GUARDRAIL_PASS_LLM_SKIPPED",
                                                         ts, Some(rep), None, None,
                                                         FALSE, FALSE))),
                  window |-> appended, report |-> Some(rep), snapshot |-> None]
            ELSE [result |-> None, window |-> << >>, report |-> Some(rep),
                  snapshot |-> Some(appended)]

Stage3_KeepOnFailure(pre, rawin, threshold, resp) ==
    IF pre.snapshot = None THEN pre
    ELSE LET out == Dispatch(resp, threshold, Some(rawin.frame.timestamp_ns),
                             pre.report[1])
         IN  [pre EXCEPT !.result = Some(out),
                         !.window = IF out.exception # ""
                                    THEN pre.snapshot[1] ELSE << >>]

\* DecisionRouter.process from the call of self.claude.analyze on (stage 3),
\* given the outcome of stages 1 and 2 and the detector's response
Stage3(pre, rawin, threshold, resp) ==
    IF pre.snapshot = None THEN pre
    ELSE [pre EXCEPT !.result =
              Some(Dispatch(resp, threshold, Some(rawin.frame.timestamp_ns),
                            pre.report[1]))]

\* DecisionRouter.process
process(rawin, window, size, threshold, enabled, resp) ==
    Stage3(Stages12(rawin, window, size, enabled), rawin, threshold, resp)

\* ------------------------------------------------------------------------
\* Inputs: telemetry frames, raw input strings, detector responses
\* ------------------------------------------------------------------------
\* attitude_q: absent key, a value that does not parse (null, list, scalar, a
\* mapping with a missing or non-numeric component), or {w, x, y, z}
Quat(w, x, y, z) == [kind |-> "dict", w |-> w, x |-> x, y |-> y, z |-> z]
QuatNoParse(kind) == [kind |-> kind, w |-> 0, x |-> 0, y |-> 0, z |-> 0]
QuatNominal == Quat(1000, 0, 0, 0)
QuatChoices ==
    {QuatNominal, Quat(1011, 0, 0, 0), QuatNoParse("absent"),
     QuatNoParse("unparseable")}

\* angular_rates: absent key, a value that does not parse, or {roll, pitch, yaw}
Rates(r, p, y) == [kind |-> "dict", roll |-> r, pitch |-> p, yaw |-> y]
RatesNoParse(kind) == [kind |-> kind, roll |-> 0, pitch |-> 0, yaw |-> 0]
RatesNominal == Rates(0, 0, 0)
RatesChoices ==
    {RatesNominal, Rates(80, 0, 0), RatesNoParse("absent"),
     RatesNoParse("unparseable")}

\* rw_rpms: absent key, a value that is not a mapping, or a mapping whose
\* entries (in insertion order) are numbers or values that do not parse
Rpm(n) == [ok |-> TRUE, rpm |-> n]
RpmNoParse == [ok |-> FALSE, rpm |-> 0]
Wheels(ws) == [kind |-> "dict", wheels |-> ws]
WheelsNominal == Wheels(<< Rpm(2000), Rpm(2000), Rpm(2000) >>)
WheelsChoices ==
    {WheelsNominal,
     Wheels(<< Rpm(2000), Rpm(7500), Rpm(2000) >>),
     Wheels(<< Rpm(2000), RpmNoParse, Rpm(2000) >>),
     Wheels(<< >>),
     [kind |-> "absent", wheels |-> << >>],
     [kind |-> "notdict", wheels |-> << >>]}

Frame(ts, q, ar, rw) ==
    [timestamp_ns |-> ts, attitude_q |-> q, angular_rates |-> ar, rw_rpms |-> rw]

\* NOMINAL of verify_phase3.py
NominalFrame(ts) == Frame(ts, QuatNominal, RatesNominal, WheelsNominal)

\* The frames offered at a tick: the nominal frame with one sub-structure
\* replaced, and frames with several replaced at once
Frames(ts) ==
    {Frame(ts, q, RatesNominal, WheelsNominal) : q \in QuatChoices}
    \cup {Frame(ts, QuatNominal, ar, WheelsNominal) : ar \in RatesChoices}
    \cup {Frame(ts, QuatNominal, RatesNominal, rw) : rw \in WheelsChoices}
    \cup {Frame(ts, Quat(1009, 0, 0, 0), Rates(50, -50, 0),
                Wheels(<< Rpm(6000), Rpm(-6000), Rpm(2000) >>)),
          Frame(ts, QuatNominal, Rates(80, 0, 0),
                Wheels(<< Rpm(2000), Rpm(7500), Rpm(2000) >>)),
          Frame(ts, Quat(2000, 2000, 2000, 2000), Rates(51, 0, -51),
                Wheels(<< Rpm(-6001), Rpm(2000), Rpm(6500) >>)),
          Frame(ts, QuatNoParse("absent"), RatesNoParse("absent"),
                [kind |-> "absent", wheels |-> << >>]),
          Frame(ts, QuatNominal, RatesNoParse("unparseable"),
                [kind |-> "absent", wheels |-> << >>])}

\* json.loads(raw_telemetry_json): text that is not JSON, JSON that is not an
\* object, or an object (the frame field is meaningful for objects only)
RawInputs(ts) ==
    {[kind |-> "undecodable", frame |-> NominalFrame(0)],
     [kind |-> "nonobject", frame |-> NominalFrame(0)]}
    \cup {[kind |-> "object", frame |-> f] : f \in Frames(ts)}

\* The tool input of a detector response (raw_output)
ToolInput(complete, detected, confidence, action) ==
    [complete |-> complete, anomaly_detected |-> detected,
     confidence |-> confidence, recommended_action |-> action]

ProposedActions ==
    {"SOFT_RESET_WHEEL_2", "CONTINUE_MONITORING", "ALERT_OPERATOR_CRITICAL",
     "REBOOT_SATELLITE"}

RawConfidences == {64990, 64996, 65000, 99990, 100000}

NoInput == ToolInput(FALSE, FALSE, 0, "")

NoTool == [kind |-> "no_tool", input |-> NoInput]

DetectorResponses ==
    {[kind |-> k, input |-> NoInput] : k \in {"api_error", "no_tool", "wrong_tool"}}
    \cup {[kind |-> "tool", input |-> ToolInput(FALSE, TRUE, 100000, "SOFT_RESET_WHEEL_2")],
          [kind |-> "tool", input |-> ToolInput(TRUE, TRUE, 100001, "SOFT_RESET_WHEEL_2")],
          [kind |-> "tool", input |-> ToolInput(TRUE, TRUE, -1, "CONTINUE_MONITORING")]}
    \cup {[kind |-> "tool", input |-> ToolInput(TRUE, FALSE, 100000, a)] :
             a \in ProposedActions}
    \cup {[kind |-> "tool", input |-> ToolInput(TRUE, TRUE, c, a)] :
             c \in RawConfidences, a \in ProposedActions}

Thresholds == {DefaultThreshold, ConfidenceMax}

\* ------------------------------------------------------------------------
\* State
\* ------------------------------------------------------------------------
VARIABLES
    llm_window_size,              \* DecisionRouter.llm_window_size
    anomaly_confidence_threshold, \* DecisionRouter.anomaly_confidence_threshold
    enable_llm,                   \* DecisionRouter.claude is not None
    telemetry_window,             \* DecisionRouter._telemetry_window
    tick,                         \* number of process() calls made
    raw_in,                       \* argument of the last process() call
    result,                       \* what the last process() call returned or raised
    report,                       \* report evaluate returned in the last call
    snapshot,                     \* window handed to analyze in the last call
    response,                     \* what the detector answered in the last call
    passed_ticks                  \* the ticks whose frame passed the engine

\* State of the DRAISLogger, of its worker thread and of the thread calling it
VARIABLES
    max_queue_size,               \* maxsize of DRAISLogger._queue
    queue,                        \* DRAISLogger._queue: records, None the sentinel
    worker_pc,                    \* where DRAISLogger._worker is in _write_worker
    held,                         \* item the worker has taken and not yet written
    log_file,                     \* the lines of the JSONL file, in file order
    records_written,              \* DRAISLogger.records_written
    records_dropped,              \* DRAISLogger.records_dropped
    stop_pc,                      \* where the caller is in stop()
    join_result,                  \* how self._worker.join(timeout) ended
    submitted,                    \* number of log() calls made
    accepted,                     \* the records put_nowait accepted, in call order
    accepted_before_stop,         \* the records accepted when stop() was called
    burst                         \* log() calls made before any dequeue or stop()

lvars ==
    << max_queue_size, queue, worker_pc, held, log_file, records_written,
       records_dropped, stop_pc, join_result, submitted, accepted,
       accepted_before_stop, burst >>

\* The caller's event objects and the records on their way to the file
VARIABLES
    events,                       \* the DecisionEvent objects handed to log(), as they are now
    logged,                       \* the event and arguments of each log() call, as given
    rec_queue,                    \* records built by log() and not yet written
    rec_file                      \* the records written, in file order

rvars == << events, logged, rec_queue, rec_file >>

vars ==
    << llm_window_size, anomaly_confidence_threshold, enable_llm, telemetry_window,
       tick, raw_in, result, report, snapshot, response, passed_ticks, rvars >>

\* DRAISLogger.__init__: an empty bounded queue, a worker thread that is not
\* started, counters at zero
LoggerConstructed(maxsize) ==
    /\ max_queue_size = maxsize
    /\ queue = << >>
    /\ worker_pc = "unstarted"
    /\ held = None
    /\ log_file = << >>
    /\ records_written = 0
    /\ records_dropped = 0
    /\ stop_pc = "idle"
    /\ join_result = ""
    /\ submitted = 0
    /\ accepted = << >>
    /\ accepted_before_stop = {}
    /\ burst = 0

\* No event has been handed to the logger
RecorderEmpty ==
    /\ events = << >>
    /\ logged = << >>
    /\ rec_queue = << >>
    /\ rec_file = << >>

\* DecisionRouter.__init__ (the logger is constructed and left alone)
Init ==
    /\ LoggerConstructed(1)
    /\ RecorderEmpty
    /\ llm_window_size \in 1..MaxWindow
    /\ anomaly_confidence_threshold \in Thresholds
    /\ enable_llm \in BOOLEAN
    /\ telemetry_window = << >>
    /\ tick = 0
    /\ raw_in = None
    /\ result = None
    /\ report = None
    /\ snapshot = None
    /\ response = None
    /\ passed_ticks = {}

\* The detector answers only when the call reaches self.claude.analyze
Answers(pre) == IF pre.snapshot = None THEN {NoTool} ELSE DetectorResponses

\* One call of DecisionRouter.process on the frame of the next tick (pre and
\* out are bound through singleton sets so that each is computed once)
Process ==
    /\ tick < MaxTicks
    /\ \E rawin \in RawInputs(tick + 1) :
         \E pre \in {Stages12(rawin, telemetry_window, llm_window_size, enable_llm)} :
           \E resp \in Answers(pre) :
             \E out \in {process(rawin, telemetry_window, llm_window_size,
                                 anomaly_confidence_threshold, enable_llm, resp)} :
                   /\ tick' = tick + 1
                   /\ raw_in' = Some(rawin)
                   /\ telemetry_window' = out.window
                   /\ result' = out.result
                   /\ report' = out.report
                   /\ snapshot' = out.snapshot
                   /\ response' = IF out.snapshot = None THEN None ELSE Some(resp)
                   /\ passed_ticks' =
                          IF out.report # None /\ out.report[1].passed
                          THEN passed_ticks \cup {tick + 1}
                          ELSE passed_ticks
    /\ UNCHANGED << llm_window_size, anomaly_confidence_threshold, enable_llm >>
    /\ UNCHANGED lvars
    /\ UNCHANGED rvars

Next == Process

Spec == Init /\ [][Next]_vars

TypeOK == tick \in 0..MaxTicks

\* ------------------------------------------------------------------------
\* dr_ais_logger.py
\* A record is the number of the log() call that built it.  The calling
\* thread makes one call at a time; the worker thread runs beside it.
\* ------------------------------------------------------------------------
put_nowait_OneMore(q, item, maxsize) ==
    IF Len(q) > maxsize
    THEN [queue |-> q, full |-> TRUE]
    ELSE [queue |-> Append(q, item), full |-> FALSE]

put_nowait_Evict(q, item, maxsize) ==
    IF Len(q) >= maxsize
    THEN [queue |-> Append(Tail(q), item), full |-> TRUE]
    ELSE [queue |-> Append(q, item), full |-> FALSE]

\* self._queue.put_nowait(record): queue.Full when the queue holds maxsize items
put_nowait(q, item, maxsize) ==
    IF Len(q) >= maxsize
    THEN [queue |-> q, full |-> TRUE]
    ELSE [queue |-> Append(q, item), full |-> FALSE]

JoinOutcomes_Eager(pc) ==
    IF pc = "unstarted" THEN {"RuntimeError"} ELSE {"joined"}

\* self._worker.join(timeout=timeout_s): raises for a thread that was never
\* started, returns at once for a terminated thread, and for a live thread
\* returns when the timeout expires
JoinOutcomes(pc) ==
    IF pc = "unstarted" THEN {"RuntimeError"}
    ELSE IF pc \in {"done", "dead"} THEN {"joined"}
    ELSE {"timeout"}

\* The calling thread is not inside stop()
CallerFree == stop_pc \in {"idle", "returned", "raised"}

\* The worker has taken nothing from the queue yet
NothingDequeued == held = None /\ log_file = << >> /\ worker_pc \notin {"drain", "done"}

\* DRAISLogger.start
Start ==
    /\ CallerFree
    /\ worker_pc = "unstarted"
    /\ worker_pc' = "opening"
    /\ UNCHANGED << max_queue_size, queue, held, log_file, records_written,
                    records_dropped, stop_pc, join_result, submitted, accepted,
                    accepted_before_stop, burst >>
    /\ UNCHANGED vars

\* DRAISLogger.log
Log ==
    /\ CallerFree
    /\ submitted < MaxLogs
    /\ \E put \in {put_nowait(queue, Some(submitted + 1), max_queue_size)} :
          /\ queue' = put.queue
          /\ records_dropped' = IF put.full THEN records_dropped + 1
                                ELSE records_dropped
          /\ accepted' = IF put.full THEN accepted
                         ELSE Append(accepted, submitted + 1)
    /\ submitted' = submitted + 1
    /\ burst' = IF NothingDequeued /\ stop_pc = "idle" THEN submitted + 1 ELSE burst
    /\ UNCHANGED << max_queue_size, worker_pc, held, log_file, records_written,
                    stop_pc, join_result, accepted_before_stop >>
    /\ UNCHANGED vars

\* DRAISLogger.stop is entered
StopCall ==
    /\ stop_pc = "idle"
    /\ stop_pc' = "putting"
    /\ accepted_before_stop' = {accepted[k] : k \in 1..Len(accepted)}
    /\ UNCHANGED << max_queue_size, queue, worker_pc, held, log_file,
                    records_written, records_dropped, join_result, submitted,
                    accepted, burst >>
    /\ UNCHANGED vars

StopPut_NoWait ==
    /\ stop_pc = "putting"
    /\ queue' = IF Len(queue) < max_queue_size THEN Append(queue, None) ELSE queue
    /\ stop_pc' = "joining"
    /\ UNCHANGED << max_queue_size, worker_pc, held, log_file, records_written,
                    records_dropped, join_result, submitted, accepted,
                    accepted_before_stop, burst >>
    /\ UNCHANGED vars

\* DRAISLogger.stop: self._queue.put(None) waits while the queue is full
StopPut ==
    /\ stop_pc = "putting"
    /\ Len(queue) < max_queue_size
    /\ queue' = Append(queue, None)
    /\ stop_pc' = "joining"
    /\ UNCHANGED << max_queue_size, worker_pc, held, log_file, records_written,
                    records_dropped, join_result, submitted, accepted,
                    accepted_before_stop, burst >>
    /\ UNCHANGED vars

\* DRAISLogger.stop: self._worker.join(timeout=timeout_s), then stop returns
StopJoin ==
    /\ stop_pc = "joining"
    /\ \E outcome \in JoinOutcomes(worker_pc) :
          /\ join_result' = outcome
          /\ stop_pc' = IF outcome = "RuntimeError" THEN "raised" ELSE "returned"
    /\ UNCHANGED << max_queue_size, queue, worker_pc, held, log_file,
                    records_written, records_dropped, submitted, accepted,
                    accepted_before_stop, burst >>
    /\ UNCHANGED vars

\* DRAISLogger._write_worker: open(self.log_path, "a") succeeds, or raises in
\* the worker thread and ends it
WorkerOpen ==
    /\ worker_pc = "opening"
    /\ \E opened \in BOOLEAN : worker_pc' = IF opened THEN "running" ELSE "dead"
    /\ UNCHANGED << max_queue_size, queue, held, log_file, records_written,
                    records_dropped, stop_pc, join_result, submitted, accepted,
                    accepted_before_stop, burst >>
    /\ UNCHANGED vars

WorkerGet_Newest ==
    /\ worker_pc = "running"
    /\ queue # << >>
    /\ queue' = SubSeq(queue, 1, Len(queue) - 1)
    /\ IF queue[Len(queue)] = None
       THEN worker_pc' = "drain" /\ held' = None
       ELSE worker_pc' = "write" /\ held' = queue[Len(queue)]
    /\ UNCHANGED << max_queue_size, log_file, records_written, records_dropped,
                    stop_pc, join_result, submitted, accepted,
                    accepted_before_stop, burst >>
    /\ UNCHANGED vars

\* DRAISLogger._write_worker: self._queue.get(timeout=1.0) returns an item
\* (an empty queue only makes the loop wait again)
WorkerGet ==
    /\ worker_pc = "running"
    /\ queue # << >>
    /\ queue' = Tail(queue)
    /\ IF Head(queue) = None
       THEN worker_pc' = "drain" /\ held' = None
       ELSE worker_pc' = "write" /\ held' = Head(queue)
    /\ UNCHANGED << max_queue_size, log_file, records_written, records_dropped,
                    stop_pc, join_result, submitted, accepted,
                    accepted_before_stop, burst >>
    /\ UNCHANGED vars

\* DRAISLogger._write_worker: f.write(json.dumps(record) + "\n") and the count
WorkerWrite ==
    /\ worker_pc = "write"
    /\ log_file' = Append(log_file, held[1])
    /\ records_written' = records_written + 1
    /\ held' = None
    /\ worker_pc' = "running"
    /\ UNCHANGED << max_queue_size, queue, records_dropped, stop_pc, join_result,
                    submitted, accepted, accepted_before_stop, burst >>
    /\ UNCHANGED vars

WorkerDrain_NoFlush ==
    /\ worker_pc = "drain"
    /\ worker_pc' = "done"
    /\ UNCHANGED << max_queue_size, queue, held, log_file, records_written,
                    records_dropped, stop_pc, join_result, submitted, accepted,
                    accepted_before_stop, burst >>
    /\ UNCHANGED vars

\* DRAISLogger._write_worker after the sentinel: one turn of the drain loop;
\* an empty queue ends the loop, the file is closed and the thread ends
WorkerDrain ==
    /\ worker_pc = "drain"
    /\ IF queue = << >>
       THEN /\ worker_pc' = "done"
            /\ UNCHANGED << queue, held >>
       ELSE /\ queue' = Tail(queue)
            /\ IF Head(queue) = None
               THEN worker_pc' = "drain" /\ held' = None
               ELSE worker_pc' = "drain_write" /\ held' = Head(queue)
    /\ UNCHANGED << max_queue_size, log_file, records_written, records_dropped,
                    stop_pc, join_result, submitted, accepted,
                    accepted_before_stop, burst >>
    /\ UNCHANGED vars

\* DRAISLogger._write_worker, drain loop: the write of a remaining record
WorkerDrainWrite ==
    /\ worker_pc = "drain_write"
    /\ log_file' = Append(log_file, held[1])
    /\ records_written' = records_written + 1
    /\ held' = None
    /\ worker_pc' = "drain"
    /\ UNCHANGED << max_queue_size, queue, records_dropped, stop_pc, join_result,
                    submitted, accepted, accepted_before_stop, burst >>
    /\ UNCHANGED vars

\* A router that is constructed and left alone, and a logger of any capacity
LoggerInit ==
    /\ llm_window_size = 1
    /\ anomaly_confidence_threshold = DefaultThreshold
    /\ enable_llm = FALSE
    /\ telemetry_window = << >>
    /\ tick = 0
    /\ raw_in = None
    /\ result = None
    /\ report = None
    /\ snapshot = None
    /\ response = None
    /\ passed_ticks = {}
    /\ \E maxsize \in 1..MaxCapacity : LoggerConstructed(maxsize)
    /\ RecorderEmpty

LoggerNext ==
    \/ Start
    \/ Log
    \/ StopCall
    \/ StopPut
    \/ StopJoin
    \/ WorkerOpen
    \/ WorkerGet
    \/ WorkerWrite
    \/ WorkerDrain
    \/ WorkerDrainWrite

LoggerSpec == LoggerInit /\ [][LoggerNext]_<< vars, lvars >>

LoggerTypeOK ==
    /\ Len(queue) <= max_queue_size
    /\ submitted \in 0..MaxLogs
    /\ worker_pc \in {"unstarted", "opening", "running", "write", "drain",
                      "drain_write", "done", "dead"}
    /\ stop_pc \in {"idle", "putting", "joining", "returned", "raised"}

\* ------------------------------------------------------------------------
\* Reading the last call
\* ------------------------------------------------------------------------
\* The last call returned a DecisionEvent (it did not raise)
ReturnedEvent == result # None /\ result[1].exception = ""

\* The DecisionEvent the last call returned
Event == result[1].event[1]

\* The frame decoded in the last call
IsFrame == raw_in # None /\ raw_in[1].kind = "object"
Telemetry == raw_in[1].frame

\* The Constraint Engine returned a failing report in the last call
ReportFailed == report # None /\ ~report[1].passed

HasCatastrophic(rep) ==
    \E k \in 1..Len(rep.violations) : rep.violations[k].severity = "CATASTROPHIC"

ViolationOutcomes == {"GUARDRAIL_VIOLATION_FATAL", "GUARDRAIL_VIOLATION_CRITICAL"}

\* A required sub-structure of the frame is missing or does not parse
UnparseableWheel(f, i) ==
    f.rw_rpms.kind = "dict" /\ i \in 1..Len(f.rw_rpms.wheels) /\ ~f.rw_rpms.wheels[i].ok

MissingOrUnparseable(f) ==
    \/ f.attitude_q.kind # "dict"
    \/ f.angular_rates.kind # "dict"
    \/ f.rw_rpms.kind # "dict"
    \/ \E i \in 1..Len(f.rw_rpms.wheels) : UnparseableWheel(f, i)

\* The report holds a violation for this field with this severity, IRREVERSIBLE
Synthesized(rep, field, severity) ==
    \E k \in 1..Len(rep.violations) :
        /\ rep.violations[k].field = field
        /\ rep.violations[k].severity = severity
        /\ rep.violations[k].action_type = "TYPE_1_IRREVERSIBLE"

\* ------------------------------------------------------------------------
\* Claims
\* ------------------------------------------------------------------------

\* C1: guardrail precedence.  Whenever the Constraint Engine's report for the
\* current frame has passed = false, analyze() is not invoked during that call
\* and the returned outcome is VIOLATION_FATAL or VIOLATION_CRITICAL.
GuardrailPrecedence ==
    ReportFailed =>
        /\ snapshot = None
        /\ response = None
        /\ ReturnedEvent
        /\ Event.outcome \in ViolationOutcomes

\* A failing frame arrives when the window lacks one frame to be full: had it
\* passed, the detector would have been invoked.
GuardrailPrecedenceWitness ==
    /\ ReportFailed
    /\ enable_llm
    /\ llm_window_size = 2
    /\ Len(telemetry_window) = 1
    /\ ReturnedEvent
    /\ Event.outcome = "GUARDRAIL_VIOLATION_CRITICAL"

\* C2: autonomous actuation.  Every returned event with actuation_approved and
\* without requires_human_approval has outcome ANOMALY_TYPE2, embeds the passing
\* report of the current frame and embeds a detector report with detected,
\* confidence >= threshold and a REVERSIBLE action.
AutonomousActuation ==
    (ReturnedEvent /\ Event.actuation_approved /\ ~Event.requires_human_approval) =>
        /\ Event.outcome = "GUARDRAIL_PASS_LLM_ANOMALY_TYPE2"
        /\ IsFrame
        /\ ~EvaluateRaises(Telemetry)
        /\ Len(Violations(Telemetry)) = 0
        /\ Event.guardrail_report # None
        /\ Event.guardrail_report[1].passed
        /\ Len(Event.guardrail_report[1].violations) = 0
        /\ Event.llm_analysis # None
        /\ Event.llm_analysis[1].anomaly_detected
        /\ Event.llm_analysis[1].confidence >= anomaly_confidence_threshold
        /\ Event.llm_analysis[1].recommended_action \in TYPE_2_ACTIONS

AutonomousActuationWitness ==
    /\ ReturnedEvent
    /\ Event.actuation_approved
    /\ ~Event.requires_human_approval
    /\ Event.proposed_action = Some("SOFT_RESET_WHEEL_2")

\* C3: with the heuristic layer enabled, the detector is invoked on the W-th,
\* 2W-th, ... constraint-passing frame and on no other frame, and the window is
\* empty right after each dispatch.
DispatchEveryWth ==
    enable_llm =>
        /\ (snapshot # None) <=>
               /\ report # None
               /\ report[1].passed
               /\ Cardinality(passed_ticks) % llm_window_size = 0
        /\ (snapshot # None => telemetry_window = << >>)

\* The second dispatch, with a violating frame among the frames before it
DispatchEveryWthWitness ==
    /\ enable_llm
    /\ snapshot # None
    /\ Cardinality(passed_ticks) = 2 * llm_window_size
    /\ tick > Cardinality(passed_ticks)

\* C4: classification of a confirmed anomaly (conforming report, detected,
\* confidence >= threshold): REVERSIBLE action -> ANOMALY_TYPE2, approved, no
\* human approval; IRREVERSIBLE action -> ANOMALY_TYPE1, not approved, human
\* approval; any other action -> TRUST_BOUNDARY_VIOLATION, not approved, human
\* approval.  The two sets are disjoint.
Classification ==
    /\ TYPE_1_ACTIONS \cap TYPE_2_ACTIONS = {}
    /\ (/\ response # None
        /\ response[1].kind = "tool"
        /\ response[1].input.complete
        /\ response[1].input.confidence >= 0
        /\ response[1].input.confidence <= 10 * ConfidenceMax
        /\ response[1].input.anomaly_detected
        /\ Round4(response[1].input.confidence) >= anomaly_confidence_threshold)
       =>
        /\ ReturnedEvent
        /\ Event.proposed_action = Some(response[1].input.recommended_action)
        /\ response[1].input.recommended_action \in TYPE_2_ACTIONS =>
               /\ Event.outcome = "GUARDRAIL_PASS_LLM_ANOMALY_TYPE2"
               /\ Event.actuation_approved
               /\ ~Event.requires_human_approval
        /\ response[1].input.recommended_action \in TYPE_1_ACTIONS =>
               /\ Event.outcome = "GUARDRAIL_PASS_LLM_ANOMALY_TYPE1"
               /\ ~Event.actuation_approved
               /\ Event.requires_human_approval
        /\ response[1].input.recommended_action \notin TYPE_1_ACTIONS \cup TYPE_2_ACTIONS =>
               /\ Event.outcome = "LLM_TRUST_BOUNDARY_VIOLATION"
               /\ ~Event.actuation_approved
               /\ Event.requires_human_approval

ClassificationWitness ==
    /\ ReturnedEvent
    /\ response # None
    /\ response[1].kind = "tool"
    /\ response[1].input.anomaly_detected
    /\ response[1].input.recommended_action = "REBOOT_SATELLITE"
    /\ Event.llm_analysis # None
    /\ Event.llm_analysis[1].confidence >= anomaly_confidence_threshold
    /\ Event.outcome = "LLM_TRUST_BOUNDARY_VIOLATION"

\* C5: severity-to-approval mapping.  For every failing report the call returns
\* VIOLATION_FATAL, approved, human approval required, if some violation is
\* CATASTROPHIC, and otherwise VIOLATION_CRITICAL, not approved, human approval
\* required.
SeverityMapping ==
    ReportFailed =>
        /\ ReturnedEvent
        /\ Event.requires_human_approval
        /\ Event.guardrail_report = report
        /\ HasCatastrophic(report[1]) =>
               /\ Event.outcome = "GUARDRAIL_VIOLATION_FATAL"
               /\ Event.actuation_approved
        /\ ~HasCatastrophic(report[1]) =>
               /\ Event.outcome = "GUARDRAIL_VIOLATION_CRITICAL"
               /\ ~Event.actuation_approved

\* A frame breaching a rate limit and a wheel limit at once is FATAL
SeverityMappingWitness ==
    /\ ReportFailed
    /\ \E k \in 1..Len(report[1].violations) :
           report[1].violations[k].severity = "CRITICAL"
    /\ HasCatastrophic(report[1])
    /\ ReturnedEvent
    /\ Event.outcome = "GUARDRAIL_VIOLATION_FATAL"

\* C6: threshold boundary.  A conforming report with detected = true and a known
\* action is actionable (ANOMALY_TYPE1 / ANOMALY_TYPE2) when its confidence
\* equals the threshold, and PASS_DETECTOR_NOMINAL when its confidence is one
\* unit (1e-4) below the threshold.
ThresholdBoundary ==
    (/\ ReturnedEvent
     /\ Event.llm_analysis # None
     /\ Event.llm_analysis[1].anomaly_detected
     /\ Event.llm_analysis[1].recommended_action \in TYPE_1_ACTIONS \cup TYPE_2_ACTIONS)
    =>
        /\ Event.llm_analysis[1].confidence = anomaly_confidence_threshold =>
               Event.outcome \in {"GUARDRAIL_PASS_LLM_ANOMALY_TYPE1",
                                  "GUARDRAIL_PASS_LLM_ANOMALY_TYPE2"}
        /\ Event.llm_analysis[1].confidence = anomaly_confidence_threshold - 1 =>
               Event.outcome = "GUARDRAIL_PASS_LLM_NOMINAL"

\* A confidence that reaches the threshold exactly is acted upon
ThresholdBoundaryWitness ==
    /\ ReturnedEvent
    /\ Event.llm_analysis # None
    /\ Event.llm_analysis[1].anomaly_detected
    /\ Event.llm_analysis[1].confidence = anomaly_confidence_threshold
    /\ Event.outcome = "GUARDRAIL_PASS_LLM_ANOMALY_TYPE1"

\* C7: every snapshot handed to the detector holds exactly W frames, each of
\* which passed the Constraint Engine, in the order in which they were
\* processed: they are the last W passing frames, the current one last.
SnapshotContents ==
    snapshot # None =>
        LET snap == snapshot[1] IN
        /\ Len(snap) = llm_window_size
        /\ \A k \in 1..Len(snap) :
               /\ ~EvaluateRaises(snap[k])
               /\ Len(Violations(snap[k])) = 0
               /\ snap[k].timestamp_ns \in passed_ticks
        /\ \A k \in 1..(Len(snap) - 1) : snap[k].timestamp_ns < snap[k + 1].timestamp_ns
        /\ snap[Len(snap)].timestamp_ns = tick
        /\ \A t \in passed_ticks :
               t >= snap[1].timestamp_ns =>
                   \E k \in 1..Len(snap) : snap[k].timestamp_ns = t

\* A snapshot whose frames were separated by a frame that did not pass
SnapshotContentsWitness ==
    /\ snapshot # None
    /\ Len(snapshot[1]) >= 2
    /\ snapshot[1][2].timestamp_ns > snapshot[1][1].timestamp_ns + 1

\* C8: fail-closed.  For every frame in which attitude_q, angular_rates or
\* rw_rpms is missing or does not parse, evaluate never produces passed = true.
FailClosedNeverPass ==
    (IsFrame /\ MissingOrUnparseable(Telemetry)) => ~(report # None /\ report[1].passed)

\* C9 as stated: whenever attitude_q, angular_rates or a wheel RPM entry is
\* missing or unparseable, the violation synthesized for that field is
\* CATASTROPHIC / IRREVERSIBLE, the report has has_fatal = true and the outcome
\* is VIOLATION_FATAL.
FailClosedSeverityAllFatal ==
    (/\ IsFrame
     /\ report # None
     /\ \/ Telemetry.attitude_q.kind # "dict"
        \/ Telemetry.angular_rates.kind # "dict"
        \/ \E i \in 1..Len(Telemetry.rw_rpms.wheels) : UnparseableWheel(Telemetry, i))
    =>
        /\ report[1].has_fatal_violation
        /\ ReturnedEvent
        /\ Event.outcome = "GUARDRAIL_VIOLATION_FATAL"

\* C9 as amended: in every report evaluate returns, a missing or unparseable
\* attitude_q and an unparseable wheel RPM entry each give a CATASTROPHIC /
\* IRREVERSIBLE violation for that field, has_fatal = true and the outcome
\* VIOLATION_FATAL; a missing or unparseable angular_rates gives a CRITICAL /
\* IRREVERSIBLE violation, and the outcome is VIOLATION_CRITICAL unless another
\* violation of the report is CATASTROPHIC.
FailClosedSeverity ==
    (IsFrame /\ report # None) =>
        /\ Telemetry.attitude_q.kind # "dict" =>
               /\ Synthesized(report[1], "attitude_q", "CATASTROPHIC")
               /\ report[1].has_fatal_violation
               /\ ReturnedEvent
               /\ Event.outcome = "GUARDRAIL_VIOLATION_FATAL"
        /\ \A i \in 1..Len(Telemetry.rw_rpms.wheels) :
               UnparseableWheel(Telemetry, i) =>
                   /\ Synthesized(report[1], "rw_rpms.wheel_" \o ToString(i),
                                  "CATASTROPHIC")
                   /\ report[1].has_fatal_violation
                   /\ ReturnedEvent
                   /\ Event.outcome = "GUARDRAIL_VIOLATION_FATAL"
        /\ Telemetry.angular_rates.kind # "dict" =>
               /\ Synthesized(report[1], "angular_rates", "CRITICAL")
               /\ ReturnedEvent
               /\ Event.outcome =
                      IF HasCatastrophic(report[1])
                      THEN "GUARDRAIL_VIOLATION_FATAL"
                      ELSE "GUARDRAIL_VIOLATION_CRITICAL"

\* A frame without angular_rates, all else nominal, is VIOLATION_CRITICAL
FailClosedSeverityWitness ==
    /\ IsFrame
    /\ report # None
    /\ Telemetry.angular_rates.kind = "absent"
    /\ Telemetry.attitude_q.kind = "dict"
    /\ ReturnedEvent
    /\ Event.outcome = "GUARDRAIL_VIOLATION_CRITICAL"

\* C10: detector protocol failure.  Whenever a dispatch fails to produce a
\* conforming report (no tool call, wrong tool, or tool input that does not
\* validate against the report schema) the call returns an event with outcome
\* TRUST_BOUNDARY_VIOLATION and requires_human_approval = true.
DetectorFailureIsTrustViolation ==
    (/\ response # None
     /\ \/ response[1].kind \in {"no_tool", "wrong_tool"}
        \/ /\ response[1].kind = "tool"
           /\ \/ ~response[1].input.complete
              \/ response[1].input.confidence < 0
              \/ response[1].input.confidence > 10 * ConfidenceMax)
    =>
        /\ ReturnedEvent
        /\ Event.outcome = "LLM_TRUST_BOUNDARY_VIOLATION"
        /\ Event.requires_human_approval

\* The detector answered the last dispatch with a report that conforms to the
\* tool schema and passes LLMAnalysis validation
ConformingReport ==
    /\ response # None
    /\ response[1].kind = "tool"
    /\ LLMAnalysisValidates(response[1].input)

ReportedAction == response[1].input.recommended_action

\* The nominal test of stage 3, read from the detector's report
ReportIsNominal ==
    \/ ~response[1].input.anomaly_detected
    \/ validate_confidence(response[1].input.confidence) < anomaly_confidence_threshold

\* C11 (as stated): for every conforming report whose recommended_action is in
\* neither action set, whatever its detected flag and confidence, the event
\* requires human approval and its outcome is never PASS_LLM_NOMINAL.
UnknownActionAlwaysHumanReview ==
    (ConformingReport /\ ReportedAction \notin TYPE_1_ACTIONS \cup TYPE_2_ACTIONS)
    =>
        /\ ReturnedEvent
        /\ Event.requires_human_approval
        /\ Event.outcome # "GUARDRAIL_PASS_LLM_NOMINAL"

\* C11 (amended): a conforming report whose recommended_action is in neither
\* action set is never approved for actuation; when the anomaly is confirmed
\* (detected and confidence at or above the threshold) the outcome is
\* LLM_TRUST_BOUNDARY_VIOLATION with human approval required, and otherwise the
\* nominal test comes first: PASS_LLM_NOMINAL, no human approval.
UnknownActionReview ==
    (ConformingReport /\ ReportedAction \notin TYPE_1_ACTIONS \cup TYPE_2_ACTIONS)
    =>
        /\ ReturnedEvent
        /\ ~Event.actuation_approved
        /\ Event.proposed_action = Some(ReportedAction)
        /\ IF ReportIsNominal
           THEN /\ Event.outcome = "GUARDRAIL_PASS_LLM_NOMINAL"
                /\ ~Event.requires_human_approval
           ELSE /\ Event.outcome = "LLM_TRUST_BOUNDARY_VIOLATION"
                /\ Event.requires_human_approval

UnknownActionReviewWitness ==
    /\ ConformingReport
    /\ ReportedAction \notin TYPE_1_ACTIONS \cup TYPE_2_ACTIONS
    /\ response[1].input.anomaly_detected
    /\ response[1].input.confidence = 64996
    /\ anomaly_confidence_threshold = DefaultThreshold
    /\ ReturnedEvent
    /\ Event.outcome = "LLM_TRUST_BOUNDARY_VIOLATION"
    /\ Event.requires_human_approval
    /\ ~Event.actuation_approved

\* C12 (as stated): no call of process() ends with an exception; every input
\* and every detector failure yields a returned DecisionEvent.
NeverRaises == result # None => result[1].exception = ""

\* C13: when the raw frame string cannot be decoded, process() returns
\* VIOLATION_FATAL with human approval required and no embedded report, the
\* Constraint Engine is not run and the detector is not called, and the window
\* is left as it was.
DecodeFailure ==
    (raw_in # None /\ raw_in[1].kind = "undecodable")
    =>
        /\ ReturnedEvent
        /\ Event.outcome = "GUARDRAIL_VIOLATION_FATAL"
        /\ Event.requires_human_approval
        /\ Event.guardrail_report = None
        /\ Event.llm_analysis = None
        /\ report = None
        /\ snapshot = None
        /\ response = None

DecodeFailureWitness ==
    /\ raw_in # None
    /\ raw_in[1].kind = "undecodable"
    /\ enable_llm
    /\ llm_window_size = 2
    /\ Len(telemetry_window) = 1
    /\ ReturnedEvent
    /\ Event.outcome = "GUARDRAIL_VIOLATION_FATAL"
    /\ Event.guardrail_report = None

\* C14: when a dispatch returns a conforming report with detected = false or
\* confidence below the threshold, process() returns PASS_LLM_NOMINAL with
\* actuation_approved = false and requires_human_approval = false, whatever
\* the recommended_action is.
NominalResult ==
    (ConformingReport /\ ReportIsNominal)
    =>
        /\ ReturnedEvent
        /\ Event.outcome = "GUARDRAIL_PASS_LLM_NOMINAL"
        /\ ~Event.actuation_approved
        /\ ~Event.requires_human_approval
        /\ Event.proposed_action = Some(ReportedAction)

NominalResultWitness ==
    /\ ConformingReport
    /\ response[1].input.anomaly_detected
    /\ response[1].input.confidence = 64990
    /\ anomaly_confidence_threshold = DefaultThreshold
    /\ ReportedAction = "ALERT_OPERATOR_CRITICAL"
    /\ ReturnedEvent
    /\ Event.outcome = "GUARDRAIL_PASS_LLM_NOMINAL"

\* C15: whenever a frame passes the Constraint Engine and the window, after
\* appending it, holds fewer than W frames, process() returns PASS_LLM_SKIPPED
\* with actuation_approved = false and requires_human_approval = false, the
\* detector is not called and the frame is kept in the window.
WindowAccumulation ==
    [][(/\ tick' = tick + 1
        /\ report' # None
        /\ report'[1].passed
        /\ Len(telemetry_window) + 1 < llm_window_size)
       =>
        /\ result' # None
        /\ result'[1].exception = ""
        /\ result'[1].event[1].outcome = "GUARDRAIL_PASS_LLM_SKIPPED"
        /\ ~result'[1].event[1].actuation_approved
        /\ ~result'[1].event[1].requires_human_approval
        /\ snapshot' = None
        /\ response' = None
        /\ telemetry_window' = Append(telemetry_window, raw_in'[1].frame)]_vars

WindowAccumulationWitness ==
    /\ enable_llm
    /\ llm_window_size = 2
    /\ Len(telemetry_window) = 1
    /\ tick = 1
    /\ passed_ticks = {1}
    /\ ReturnedEvent
    /\ Event.outcome = "GUARDRAIL_PASS_LLM_SKIPPED"
    /\ ~Event.actuation_approved
    /\ ~Event.requires_human_approval

\* C16: with enable_llm = False the detector is never called, every frame
\* that passes the Constraint Engine yields PASS_LLM_SKIPPED, and a frame that
\* violates a constraint yields the same event as the enabled router returns
\* for it: VIOLATION_FATAL or VIOLATION_CRITICAL by severity.
LayerDisabled ==
    ~enable_llm =>
        /\ snapshot = None
        /\ response = None
        /\ (report # None /\ report[1].passed) =>
               /\ ReturnedEvent
               /\ Event.outcome = "GUARDRAIL_PASS_LLM_SKIPPED"
               /\ ~Event.actuation_approved
               /\ ~Event.requires_human_approval
        /\ ReportFailed =>
               /\ ReturnedEvent
               /\ Event.outcome = IF HasCatastrophic(report[1])
                                  THEN "GUARDRAIL_VIOLATION_FATAL"
                                  ELSE "GUARDRAIL_VIOLATION_CRITICAL"
               /\ result = process(raw_in[1], << >>, llm_window_size,
                                   anomaly_confidence_threshold, TRUE, NoTool).result

LayerDisabledWitness ==
    /\ ~enable_llm
    /\ Cardinality(passed_ticks) > llm_window_size
    /\ tick \in passed_ticks
    /\ ReturnedEvent
    /\ Event.outcome = "GUARDRAIL_PASS_LLM_SKIPPED"
    /\ snapshot = None

\* The last call ran the Constraint Engine on a decoded frame
Evaluated == IsFrame /\ report # None

WheelField(i) == "rw_rpms.wheel_" \o ToString(i)

HasViolation(rep, field) ==
    \E k \in 1..Len(rep.violations) : rep.violations[k].field = field

\* The indexes of the numeric wheel entries whose magnitude exceeds the limit
OverLimitWheels(f) ==
    {i \in 1..Len(WheelEntries(f.rw_rpms)) :
        /\ WheelEntries(f.rw_rpms)[i].ok
        /\ Abs(WheelEntries(f.rw_rpms)[i].rpm) > WheelLimit}

\* C17: every numeric wheel entry contributes a violation iff |rpm| > 6000
\* (|rpm| = 6000 passes); that violation is CATASTROPHIC and IRREVERSIBLE; a
\* frame with a wheel above the limit gives passed = false, has_fatal = true
\* and the outcome VIOLATION_FATAL with human approval required.
WheelBound ==
    Evaluated =>
        /\ \A i \in 1..Len(WheelEntries(Telemetry.rw_rpms)) :
              WheelEntries(Telemetry.rw_rpms)[i].ok =>
                  (HasViolation(report[1], WheelField(i))
                   <=> Abs(WheelEntries(Telemetry.rw_rpms)[i].rpm) > WheelLimit)
        /\ \A k \in 1..Len(report[1].violations) :
              (\E i \in 1..3 : report[1].violations[k].field = WheelField(i)) =>
                  /\ report[1].violations[k].severity = "CATASTROPHIC"
                  /\ report[1].violations[k].action_type = "TYPE_1_IRREVERSIBLE"
                  /\ report[1].violations[k].limit_value = WheelLimit
        /\ OverLimitWheels(Telemetry) # {} =>
              /\ ~report[1].passed
              /\ report[1].has_fatal_violation
              /\ ReturnedEvent
              /\ Event.outcome = "GUARDRAIL_VIOLATION_FATAL"
              /\ Event.requires_human_approval

WheelBoundWitness ==
    /\ Evaluated
    /\ Telemetry.attitude_q = QuatNominal
    /\ Telemetry.angular_rates = RatesNominal
    /\ Telemetry.rw_rpms = Wheels(<< Rpm(2000), Rpm(7500), Rpm(2000) >>)
    /\ Len(report[1].violations) = 1
    /\ HasViolation(report[1], WheelField(2))
    /\ ReturnedEvent
    /\ Event.outcome = "GUARDRAIL_VIOLATION_FATAL"

RateFields ==
    {"angular_rates", "angular_rates.roll", "angular_rates.pitch", "angular_rates.yaw"}

RateOverLimit(ar) ==
    Abs(ar.roll) > RateLimit \/ Abs(ar.pitch) > RateLimit \/ Abs(ar.yaw) > RateLimit

\* C18: a frame with numeric rates fails the rate check iff some axis has
\* |rate| > 5.0 deg/s (|rate| = 5.0 passes); a rate violation is CRITICAL and
\* IRREVERSIBLE; when the rates are the only breach the outcome is
\* VIOLATION_CRITICAL with actuation_approved = false.
RateBound ==
    Evaluated =>
        /\ Telemetry.angular_rates.kind = "dict" =>
              ((\E f \in RateFields : HasViolation(report[1], f))
               <=> RateOverLimit(Telemetry.angular_rates))
        /\ \A k \in 1..Len(report[1].violations) :
              report[1].violations[k].field \in RateFields =>
                  /\ report[1].violations[k].severity = "CRITICAL"
                  /\ report[1].violations[k].action_type = "TYPE_1_IRREVERSIBLE"
                  /\ report[1].violations[k].limit_value = RateLimit
        /\ (/\ Telemetry.angular_rates.kind = "dict"
            /\ RateOverLimit(Telemetry.angular_rates)
            /\ \A k \in 1..Len(report[1].violations) :
                  report[1].violations[k].field \in RateFields)
           =>
              /\ ~report[1].passed
              /\ ~report[1].has_fatal_violation
              /\ ReturnedEvent
              /\ Event.outcome = "GUARDRAIL_VIOLATION_CRITICAL"
              /\ ~Event.actuation_approved

RateBoundWitness ==
    /\ Evaluated
    /\ Telemetry.attitude_q = QuatNominal
    /\ Telemetry.angular_rates = Rates(80, 0, 0)
    /\ Telemetry.rw_rpms = WheelsNominal
    /\ Len(report[1].violations) = 1
    /\ ReturnedEvent
    /\ Event.outcome = "GUARDRAIL_VIOLATION_CRITICAL"
    /\ ~Event.actuation_approved

\* C19: the three checks run on every frame whatever the others found.  For a
\* frame whose three sub-structures are present and numeric, the report holds
\* the quaternion violation if the norm is out of tolerance, then the rate
\* violation if some axis is over the limit, then one violation per over-limit
\* wheel in wheel order, and nothing else.
NoShortCircuit ==
    (/\ Evaluated
     /\ Telemetry.attitude_q.kind = "dict"
     /\ Telemetry.angular_rates.kind = "dict"
     /\ Telemetry.rw_rpms.kind = "dict"
     /\ \A i \in 1..Len(Telemetry.rw_rpms.wheels) : Telemetry.rw_rpms.wheels[i].ok)
    =>
        LET v == report[1].violations
            nq == IF NormOutOfTolerance(Telemetry.attitude_q) THEN 1 ELSE 0
            nr == IF RateOverLimit(Telemetry.angular_rates) THEN 1 ELSE 0
            K == OverLimitWheels(Telemetry)
        IN  /\ Len(v) = nq + nr + Cardinality(K)
            /\ nq = 1 => v[1].field = "attitude_q"
            /\ nr = 1 => v[nq + 1].field = "angular_rates"
            /\ \A i \in K :
                  v[nq + nr + Cardinality({j \in K : j < i}) + 1].field = WheelField(i)

NoShortCircuitWitness ==
    /\ Evaluated
    /\ Telemetry.attitude_q.kind = "dict"
    /\ NormOutOfTolerance(Telemetry.attitude_q)
    /\ Telemetry.angular_rates.kind = "dict"
    /\ RateOverLimit(Telemetry.angular_rates)
    /\ OverLimitWheels(Telemetry) = {1, 3}
    /\ Len(report[1].violations) = 4
    /\ report[1].violations[4].field = WheelField(3)

\* C20: in every report evaluate returns, passed = (violations is empty),
\* has_fatal = (some violation is CATASTROPHIC), requires_type_1_action =
\* (some violation is IRREVERSIBLE), and has_fatal implies
\* requires_type_1_action.
ReportInvariants ==
    report # None =>
        /\ report[1].passed <=> (Len(report[1].violations) = 0)
        /\ report[1].has_fatal_violation <=> HasCatastrophic(report[1])
        /\ report[1].requires_type_1_action <=>
               (\E k \in 1..Len(report[1].violations) :
                    report[1].violations[k].action_type = "TYPE_1_IRREVERSIBLE")
        /\ report[1].has_fatal_violation => report[1].requires_type_1_action

ReportInvariantsWitness ==
    /\ report # None
    /\ Len(report[1].violations) = 2
    /\ ~report[1].passed
    /\ report[1].has_fatal_violation
    /\ report[1].requires_type_1_action
    /\ report[1].violations[1].severity = "CRITICAL"
    /\ report[1].violations[2].severity = "CATASTROPHIC"

\* The seven members of DecisionOutcome
DecisionOutcome ==
    {"GUARDRAIL_PASS_LLM_SKIPPED", "GUARDRAIL_PASS_LLM_NOMINAL",
     "GUARDRAIL_PASS_LLM_ANOMALY_TYPE2", "GUARDRAIL_PASS_LLM_ANOMALY_TYPE1",
     "GUARDRAIL_VIOLATION_FATAL", "GUARDRAIL_VIOLATION_CRITICAL",
     "LLM_TRUST_BOUNDARY_VIOLATION"}

\* The frame with another timestamp: what a later tick sends when the
\* measured values are the same
Restamped(f, ts) == [f EXCEPT !.timestamp_ns = ts]

OneDecisionPerTick ==
    tick > 0 =>
        /\ ReturnedEvent
        /\ Len(result[1].event) = 1
        /\ Event.outcome \in DecisionOutcome
        /\ Len(response) <= 1

\* ------------------------------------------------------------------------
\* Reading the logger
\* ------------------------------------------------------------------------
allvars == << vars, lvars >>

Range(seq) == {seq[k] : k \in 1..Len(seq)}

\* The number of records (entries other than the sentinel) in a queue
RecordsIn(q) == Cardinality({k \in 1..Len(q) : q[k] # None})

\* The step is a log() call
LogStep == submitted' = submitted + 1

WorkerEnded == worker_pc \in {"done", "dead"}

\* C23 (as stated): a log() call with fewer than C records in the queue
\* appends the record and leaves records_dropped alone; with C records in the
\* queue it leaves the queue alone and adds 1 to records_dropped.
LogByRecordCount ==
    [][LogStep =>
         IF RecordsIn(queue) < max_queue_size
         THEN /\ queue' = Append(queue, Some(submitted'))
              /\ records_dropped' = records_dropped
         ELSE /\ queue' = queue
              /\ records_dropped' = records_dropped + 1]_allvars

LogStepEffect ==
    LogStep =>
        /\ IF Len(queue) < max_queue_size
           THEN /\ queue' = Append(queue, Some(submitted'))
                /\ records_dropped' = records_dropped
           ELSE /\ queue' = queue
                /\ records_dropped' = records_dropped + 1
        /\ UNCHANGED << worker_pc, held, log_file, records_written, stop_pc >>

\* C23 (amended): log() can be called in every state of the queue and of the
\* worker and completes in one step of the caller; with fewer than C entries
\* in the queue (records and the shutdown sentinel alike) the record is
\* appended and records_dropped is unchanged, with C entries the record is
\* discarded, the queue is unchanged and records_dropped grows by exactly 1;
\* records_dropped never decreases and equals the number of rejected calls.
LogNonBlocking ==
    /\ []((CallerFree /\ submitted < MaxLogs) => ENABLED Log)
    /\ [](records_dropped = submitted - Len(accepted))
    /\ [][LogStepEffect /\ records_dropped' >= records_dropped]_allvars

LogNonBlockingWitness ==
    /\ max_queue_size = 2
    /\ queue = << Some(1), None >>
    /\ worker_pc = "running"
    /\ stop_pc = "returned"
    /\ submitted = 3
    /\ records_dropped = 2
    /\ accepted = << 1 >>

\* C24: when N > C records are submitted before the worker dequeues anything
\* (and before stop()), the queue holds exactly the first C of them in
\* submission order, the other N - C are dropped for good and counted, the
\* file starts with the first C in submission order, and once the worker has
\* ended after the sentinel all of the first C are written.
BackpressureAccounting ==
    burst > max_queue_size =>
        /\ Len(accepted) >= max_queue_size
        /\ \A k \in 1..max_queue_size : accepted[k] = k
        /\ \A k \in 1..Len(log_file) : k <= max_queue_size => log_file[k] = k
        /\ \A id \in (max_queue_size + 1)..burst :
              /\ id \notin Range(accepted)
              /\ id \notin Range(log_file)
              /\ Some(id) \notin Range(queue)
              /\ held # Some(id)
        /\ records_dropped >= burst - max_queue_size
        /\ (NothingDequeued /\ stop_pc = "idle") =>
              /\ queue = [k \in 1..max_queue_size |-> Some(k)]
              /\ records_dropped = submitted - max_queue_size
        /\ worker_pc = "done" => Len(log_file) >= max_queue_size
        /\ (worker_pc = "done" /\ submitted = burst) =>
              /\ log_file = [k \in 1..max_queue_size |-> k]
              /\ records_written = max_queue_size
              /\ records_dropped = burst - max_queue_size

BackpressureAccountingWitness ==
    /\ max_queue_size = 2
    /\ burst = 4
    /\ submitted = 4
    /\ worker_pc = "done"
    /\ log_file = << 1, 2 >>
    /\ records_written = 2
    /\ records_dropped = 2

\* C25: when the worker closes the file and ends, every record that was
\* accepted before stop() was called is in the file, nothing is held
\* unwritten, and the worker leaves the drain loop only on an empty queue.
ShutdownFlush ==
    [][worker_pc' = "done" =>
         /\ accepted_before_stop' \subseteq Range(log_file')
         /\ held' = None
         /\ worker_pc # "done" => (queue = << >> /\ queue' = << >>)]_allvars

ShutdownFlushWitness ==
    /\ worker_pc = "done"
    /\ Cardinality(accepted_before_stop) = 2
    /\ Len(log_file) = 3
    /\ accepted_before_stop \subseteq Range(log_file)
    /\ queue = << >>

\* C26 (as stated): stop() never waits on the worker: there is no state in
\* which the caller is held in stop() by a full queue while the worker can
\* make no progress (never started, or ended).
StopNeverWaitsForWorker ==
    ~(/\ stop_pc = "putting"
      /\ Len(queue) >= max_queue_size
      /\ worker_pc \in {"unstarted", "dead", "done"})

\* C27 (as stated): once the worker has ended, every record passed to log()
\* is either a line of the file or counted in records_dropped.
EveryRecordWrittenOrCounted ==
    worker_pc = "done" =>
        /\ Len(log_file) + records_dropped = submitted
        /\ RecordsIn(queue) = 0

\* C28: stop() returns either because the worker has ended or because the
\* timeout of the join expired; only in the first case has the worker ended
\* when stop() returns, so the caller's wait and the drain can disagree.
StopReturn ==
    stop_pc = "returned" =>
        /\ join_result \in {"joined", "timeout"}
        /\ join_result = "joined" => (WorkerEnded /\ held = None)

StopReturnWitness ==
    /\ stop_pc = "returned"
    /\ join_result = "timeout"
    /\ ~WorkerEnded
    /\ worker_pc = "write"
    /\ held # None
    /\ RecordsIn(queue) > 0
    /\ None \in Range(queue)

\* C29 (as stated): log() never accepts a record while the worker has ended
\* on a failed open of the log file.
NoAcceptWithoutWorker ==
    [][~(worker_pc = "dead" /\ LogStep /\ Len(accepted') > Len(accepted))]_allvars

\* C30: the lines of the file are the accepted records in the order of their
\* log() calls, without gap or repetition; records_written is the number of
\* lines; only a write step of the worker changes the file or the count.
WriteOrder ==
    [][/\ Len(log_file') <= Len(accepted')
       /\ \A k \in 1..Len(log_file') : log_file'[k] = accepted'[k]
       /\ records_written' = Len(log_file')
       /\ (log_file' # log_file \/ records_written' # records_written) =>
             /\ worker_pc \in {"write", "drain_write"}
             /\ log_file' = Append(log_file, held[1])
             /\ UNCHANGED << queue, stop_pc, submitted, accepted,
                             records_dropped >>]_allvars

WriteOrderWitness ==
    /\ worker_pc = "done"
    /\ records_dropped > 0
    /\ Len(log_file) = 3
    /\ log_file = accepted
    /\ \E k \in 1..Len(log_file) : log_file[k] \notin accepted_before_stop

\* ------------------------------------------------------------------------
\* The accumulation window
\* ------------------------------------------------------------------------
Stamps(w) == [k \in 1..Len(w) |-> w[k].timestamp_ns]

\* The n-th smallest member of a set of numbers
RECURSIVE Nth(_, _)
Nth(S, n) ==
    LET least == CHOOSE x \in S : \A y \in S : x <= y
    IN  IF n = 1 THEN least ELSE Nth(S \ {least}, n - 1)

\* The ticks of the last n passing frames, oldest first
LastPassing(n) ==
    [k \in 1..n |-> Nth(passed_ticks, Cardinality(passed_ticks) - n + k)]

MinOf(a, b) == IF a < b THEN a ELSE b

\* C33: the window never holds more than W frames; with the heuristic layer
\* enabled it holds strictly fewer than W frames after every call; with the
\* layer disabled it holds the most recent min(n, W) passing frames, oldest
\* first.
WindowBound ==
    /\ Len(telemetry_window) <= llm_window_size
    /\ \A k \in 1..Len(telemetry_window) :
          /\ telemetry_window[k].timestamp_ns \in passed_ticks
          /\ evaluate(telemetry_window[k]).passed
    /\ enable_llm => Len(telemetry_window) < llm_window_size
    /\ ~enable_llm =>
          /\ Stamps(telemetry_window) =
                LastPassing(MinOf(Cardinality(passed_ticks), llm_window_size))
          /\ (tick \in passed_ticks) =>
                telemetry_window[Len(telemetry_window)] = Telemetry

WindowBoundWitness ==
    /\ ~enable_llm
    /\ llm_window_size = 2
    /\ passed_ticks = {1, 2, 4}
    /\ tick = 4
    /\ Stamps(telemetry_window) = << 2, 4 >>

\* C34: a call that ends in VIOLATION_FATAL or VIOLATION_CRITICAL, the
\* decode-failure path included, leaves the window as it was; the frames
\* gathered before it are kept, and the dispatch happens on the W-th passing
\* frame since the last dispatch, violating frames in between or not.
ViolationKeepsWindow ==
    [][(tick' = tick + 1) =>
         /\ (/\ result'[1].exception = ""
             /\ result'[1].event[1].outcome \in ViolationOutcomes)
            => (telemetry_window' = telemetry_window /\ snapshot' = None)
         /\ (enable_llm /\ report' # None /\ report'[1].passed) =>
               IF Len(telemetry_window) = llm_window_size - 1
               THEN /\ snapshot' =
                          Some(Append(telemetry_window, raw_in'[1].frame))
                    /\ Stamps(snapshot'[1]) = LastPassing(llm_window_size)'
               ELSE /\ snapshot' = None
                    /\ telemetry_window' =
                          Append(telemetry_window, raw_in'[1].frame)]_vars

ViolationKeepsWindowWitness ==
    /\ enable_llm
    /\ llm_window_size = 2
    /\ tick = 4
    /\ passed_ticks = {1, 4}
    /\ snapshot # None
    /\ Stamps(snapshot[1]) = << 1, 4 >>

\* The ticks whose frame has been handed to the detector: the passing frames
\* that are no longer in the window
DispatchedTicks ==
    passed_ticks \ {telemetry_window[k].timestamp_ns : k \in 1..Len(telemetry_window)}

\* C35: the window is empty after every dispatch, whether the detector
\* returned a report, signalled a failure or raised; a snapshot is made of
\* the window and the new frame only, none of which was in an earlier
\* snapshot; after a dispatch the next one needs W new passing frames.
NoCarryOver ==
    [][(tick' = tick + 1) =>
         /\ snapshot' # None =>
               /\ telemetry_window' = << >>
               /\ Len(snapshot'[1]) = llm_window_size
               /\ snapshot'[1] = Append(telemetry_window, raw_in'[1].frame)
               /\ \A k \in 1..Len(snapshot'[1]) :
                     snapshot'[1][k].timestamp_ns \notin DispatchedTicks
         /\ \A k \in 1..Len(telemetry_window') :
               \/ \E j \in 1..Len(telemetry_window) :
                     telemetry_window'[k] = telemetry_window[j]
               \/ telemetry_window'[k] = raw_in'[1].frame
         /\ (snapshot # None /\ snapshot' # None) => llm_window_size = 1]_vars

NoCarryOverWitness ==
    /\ enable_llm
    /\ llm_window_size = 2
    /\ tick = 4
    /\ passed_ticks = {1, 2, 3, 4}
    /\ snapshot # None
    /\ Stamps(snapshot[1]) = << 3, 4 >>
    /\ telemetry_window = << >>
    /\ result # None
    /\ result[1].exception = "ValidationError"

\* C36 (as stated): for every frame whose angular_rates parse, the report has
\* a violation with field angular_rates.<axis> exactly for the axes whose
\* |rate| exceeds the limit.
ViolationPerAxis ==
    (Evaluated /\ Telemetry.angular_rates.kind = "dict") =>
        /\ HasViolation(report[1], "angular_rates.roll")
              <=> Abs(Telemetry.angular_rates.roll) > RateLimit
        /\ HasViolation(report[1], "angular_rates.pitch")
              <=> Abs(Telemetry.angular_rates.pitch) > RateLimit
        /\ HasViolation(report[1], "angular_rates.yaw")
              <=> Abs(Telemetry.angular_rates.yaw) > RateLimit

\* C37 (as stated): for every bound breach the report has a violation whose
\* observed_value is the offending value of the frame and whose limit_value
\* is the breached limit.
ObservedValueIsCause ==
    Evaluated =>
        /\ \A i \in OverLimitWheels(Telemetry) :
              \E k \in 1..Len(report[1].violations) :
                 /\ report[1].violations[k].field = WheelField(i)
                 /\ report[1].violations[k].observed_value =
                        Telemetry.rw_rpms.wheels[i].rpm
                 /\ report[1].violations[k].limit_value = WheelLimit
        /\ (Telemetry.angular_rates.kind = "dict"
            /\ Abs(Telemetry.angular_rates.roll) > RateLimit) =>
              \E k \in 1..Len(report[1].violations) :
                 /\ report[1].violations[k].observed_value =
                        Telemetry.angular_rates.roll
                 /\ report[1].violations[k].limit_value = RateLimit
        /\ (Telemetry.attitude_q.kind = "dict"
            /\ NormOutOfTolerance(Telemetry.attitude_q)) =>
              \E k \in 1..Len(report[1].violations) :
                 /\ report[1].violations[k].observed_value =
                        Norm(Telemetry.attitude_q)
                 /\ report[1].violations[k].limit_value = QuatUnit

\* ------------------------------------------------------------------------
\* Shutdown of the logger
\* ------------------------------------------------------------------------
\* DRAISLogger.log, called only before stop()
LogBeforeStop == stop_pc = "idle" /\ Log

\* The logger when no log() call follows stop(): nothing is queued behind
\* the sentinel, so the drain loop finds the queue empty
ShutdownNext ==
    \/ Start
    \/ LogBeforeStop
    \/ StopCall
    \/ StopPut
    \/ StopJoin
    \/ WorkerOpen
    \/ WorkerGet
    \/ WorkerWrite
    \/ WorkerDrain

\* The worker thread and the caller inside stop() are scheduled fairly
ShutdownSpec ==
    /\ LoggerInit
    /\ [][ShutdownNext]_allvars
    /\ WF_allvars(WorkerOpen)
    /\ WF_allvars(WorkerGet)
    /\ WF_allvars(WorkerWrite)
    /\ WF_allvars(WorkerDrain)
    /\ WF_allvars(StopPut)
    /\ WF_allvars(StopJoin)

\* C31 (as stated): when start() was called and stop() is then called, with
\* no log() call afterwards, the worker eventually ends with the queue empty
\* and records_written equal to the number of accepted records.
ShutdownTerminates ==
    (worker_pc # "unstarted" /\ stop_pc = "putting")
    ~> (/\ worker_pc = "done"
        /\ queue = << >>
        /\ records_written = Len(accepted))

SentinelPlaced ==
    \/ \E k \in 1..Len(queue) : queue[k] = None
    \/ worker_pc \in {"drain", "drain_write", "done"}

\* C32: stop() goes on to the join only by putting the sentinel at the tail
\* of the queue, which it does only when the queue has room; from then on the
\* sentinel is in the queue until the worker takes it (a log() call never
\* displaces it), and every record accepted before stop() that is still
\* queued is ahead of it.
SentinelNeverDropped ==
    [][/\ (stop_pc = "putting" /\ stop_pc' # "putting") =>
             /\ stop_pc' = "joining"
             /\ Len(queue) < max_queue_size
             /\ queue' = Append(queue, None)
       /\ stop_pc' \in {"joining", "returned", "raised"} =>
             /\ SentinelPlaced'
             /\ \A j \in 1..Len(queue') :
                   (queue'[j] # None /\ queue'[j][1] \in accepted_before_stop') =>
                       \E k \in (j + 1)..Len(queue') : queue'[k] = None]_allvars

SentinelNeverDroppedWitness ==
    /\ stop_pc = "returned"
    /\ join_result = "timeout"
    /\ max_queue_size = 2
    /\ queue = << Some(2), None >>
    /\ accepted_before_stop = {1, 2}
    /\ records_dropped = 2
    /\ submitted = 4

\* ------------------------------------------------------------------------
\* dr_ais_logger.py: the audit record.  Clock readings (logged_at_utc, the
\* event's own timestamp_ns) and the free-text message are left out of the
\* record; latencies are whole microseconds.
\* ------------------------------------------------------------------------
ViolationRecord(v) ==
    [field |-> v.field, observed_value |-> v.observed_value,
     limit_value |-> v.limit_value, severity |-> v.severity,
     action_type |-> v.action_type]

\* _build_log_record: the violations list
RecordViolations(event) ==
    IF event.guardrail_report = None THEN << >>
    ELSE [k \in 1..Len(event.guardrail_report[1].violations) |->
             ViolationRecord(event.guardrail_report[1].violations[k])]

\* _build_log_record: llm_record
LlmRecord(event) ==
    IF event.llm_analysis = None THEN None
    ELSE Some([anomaly_detected |-> event.llm_analysis[1].anomaly_detected,
               confidence |-> event.llm_analysis[1].confidence,
               recommended_action |-> event.llm_analysis[1].recommended_action])

OrZero(opt) == IF opt = None THEN 0 ELSE opt[1]

\* _build_log_record: rocs_telemetry, built only when input_tokens is given
RocsTelemetry(llm_latency_us, prompt_hash, input_tokens, output_tokens) ==
    IF input_tokens = None THEN None
    ELSE Some([input_tokens |-> input_tokens,
               output_tokens |-> output_tokens,
               total_tokens |-> OrZero(input_tokens) + OrZero(output_tokens),
               prompt_hash_sha256 |-> prompt_hash,
               llm_latency_us |-> llm_latency_us])

\* _build_log_record
BuildLogRecord(event, guardrail_latency_us, llm_latency_us, prompt_hash, input_tokens, output_tokens) ==
    [schema_version |-> "1.0.0",
     telemetry_timestamp_ns |-> event.telemetry_timestamp_ns,
     outcome |-> event.outcome,
     actuation_approved |-> event.actuation_approved,
     requires_human_approval |-> event.requires_human_approval,
     guardrail |->
         [passed |-> IF event.guardrail_report = None THEN TRUE
                     ELSE event.guardrail_report[1].passed,
          has_fatal_violation |->
                     IF event.guardrail_report = None THEN FALSE
                     ELSE event.guardrail_report[1].has_fatal_violation,
          violation_count |-> Len(RecordViolations(event)),
          violations |-> RecordViolations(event),
          latency_us |-> guardrail_latency_us],
     llm |-> LlmRecord(event),
     rocs_telemetry |->
         RocsTelemetry(llm_latency_us, prompt_hash, input_tokens, output_tokens)]

\* DRAISLogger.log: the SHA-256 of the prompt, when a prompt is given
PromptHash(prompt_text) ==
    IF prompt_text = None \/ prompt_text[1] = "" THEN None
    ELSE Some(<< "sha256", prompt_text[1] >>)

\* The keyword arguments of a log() call
LogArgs(guardrail_latency_us, llm_latency_us, prompt_text, input_tokens, output_tokens) ==
    [guardrail_latency_us |-> guardrail_latency_us,
     llm_latency_us |-> llm_latency_us,
     prompt_text |-> prompt_text,
     input_tokens |-> input_tokens,
     output_tokens |-> output_tokens]

\* DRAISLogger.log up to the put: the record built from the event and the
\* arguments of the call
RecordOf(event, args) ==
    BuildLogRecord(event, args.guardrail_latency_us, args.llm_latency_us,
                   PromptHash(args.prompt_text), args.input_tokens,
                   args.output_tokens)

\* The calls of run_simulation.process_tick (latency without token counts
\* when the event carries an analysis) and calls that pass the token counts
ArgChoices(event) ==
    {LogArgs(42, IF event.llm_analysis = None THEN None ELSE Some(42),
             None, None, None),
     LogArgs(42, Some(1200), Some("p"), Some(500), Some(80)),
     LogArgs(42, None, None, None, None)}

\* Events the router returns: decode failure, a fatal and a critical
\* violation, an accumulating frame, and a dispatch answered with an anomaly
EventChoices ==
    {r.result[1].event[1] :
        r \in {process([kind |-> "undecodable", frame |-> NominalFrame(0)],
                       << >>, 2, DefaultThreshold, TRUE, NoTool),
               process([kind |-> "object",
                        frame |-> Frame(1, QuatNominal, RatesNominal,
                                        Wheels(<< Rpm(2000), Rpm(7500), Rpm(2000) >>))],
                       << >>, 2, DefaultThreshold, TRUE, NoTool),
               process([kind |-> "object",
                        frame |-> Frame(1, QuatNominal, Rates(80, 0, 0),
                                        WheelsNominal)],
                       << >>, 2, DefaultThreshold, TRUE, NoTool),
               process([kind |-> "object", frame |-> NominalFrame(1)],
                       << >>, 2, DefaultThreshold, TRUE, NoTool),
               process([kind |-> "object", frame |-> NominalFrame(1)],
                       << >>, 1, DefaultThreshold, TRUE,
                       [kind |-> "tool",
                        input |-> ToolInput(TRUE, TRUE, 99990,
                                            "SOFT_RESET_WHEEL_2")])}}

\* What the caller can do to an event object it still holds after log()
Tampered(event) ==
    [event EXCEPT !.outcome = "GUARDRAIL_PASS_LLM_SKIPPED",
                  !.actuation_approved = ~@,
                  !.guardrail_report =
                      IF @ = None THEN @
                      ELSE Some([@[1] EXCEPT !.violations = << >>])]

LineOf_Live(item, heap) ==
    RecordOf(heap[item.id], logged[item.id].args)

\* _write_worker: json.dumps(record) of the dict taken from the queue; the
\* dict holds only scalars and containers built by _build_log_record
LineOf(item, heap) == item.record

routerstate ==
    << llm_window_size, anomaly_confidence_threshold, enable_llm, telemetry_window,
       tick, raw_in, result, report, snapshot, response, passed_ticks >>

\* process_tick: router.process returns an event, audit_logger.log builds its
\* record and queues it
RecLog ==
    /\ Len(events) < MaxRecords
    /\ \E event \in EventChoices :
         \E args \in ArgChoices(event) :
           \E put \in {put_nowait(rec_queue,
                                  [id |-> Len(events) + 1,
                                   record |-> RecordOf(event, args)],
                                  MaxRecords)} :
              /\ events' = Append(events, event)
              /\ logged' = Append(logged, [event |-> event, args |-> args])
              /\ rec_queue' = put.queue
              /\ records_dropped' = IF put.full THEN records_dropped + 1
                                    ELSE records_dropped
    /\ UNCHANGED << rec_file, routerstate >>
    /\ UNCHANGED << max_queue_size, queue, worker_pc, held, log_file,
                    records_written, stop_pc, join_result, submitted, accepted,
                    accepted_before_stop, burst >>

\* The caller changes an event object after log() has returned
RecTamper ==
    /\ \E k \in 1..Len(events) :
          /\ events[k] = logged[k].event
          /\ events' = [events EXCEPT ![k] = Tampered(@)]
    /\ UNCHANGED << logged, rec_queue, rec_file, routerstate, lvars >>

\* _write_worker: the next record is taken and written
RecWrite ==
    /\ rec_queue # << >>
    /\ rec_file' = Append(rec_file, LineOf(Head(rec_queue), events))
    /\ rec_queue' = Tail(rec_queue)
    /\ UNCHANGED << events, logged, routerstate, lvars >>

RecordInit ==
    /\ llm_window_size = 1
    /\ anomaly_confidence_threshold = DefaultThreshold
    /\ enable_llm = FALSE
    /\ telemetry_window = << >>
    /\ tick = 0
    /\ raw_in = None
    /\ result = None
    /\ report = None
    /\ snapshot = None
    /\ response = None
    /\ passed_ticks = {}
    /\ LoggerConstructed(MaxRecords)
    /\ RecorderEmpty

RecordNext == RecLog \/ RecTamper \/ RecWrite

RecordSpec == RecordInit /\ [][RecordNext]_allvars

\* The record built by the k-th log() call
BuiltRecord(k) == RecordOf(logged[k].event, logged[k].args)

\* C38 (as stated): every record built for the log has guardrail.passed =
\* false when its outcome is VIOLATION_FATAL or VIOLATION_CRITICAL and
\* guardrail.passed = true for every other outcome.
RecordAgreesWithOutcome ==
    \A k \in 1..Len(logged) :
        BuiltRecord(k).guardrail.passed
            <=> BuiltRecord(k).outcome \notin ViolationOutcomes

\* C39 (as stated): the record carries the llm_latency_us given to log()
\* whether or not token counts are given, and carries none only when none
\* was given.
LatencyLogged ==
    \A k \in 1..Len(logged) :
        /\ logged[k].args.llm_latency_us # None =>
              /\ BuiltRecord(k).rocs_telemetry # None
              /\ BuiltRecord(k).rocs_telemetry[1].llm_latency_us =
                     logged[k].args.llm_latency_us
        /\ (BuiltRecord(k).rocs_telemetry # None
            /\ BuiltRecord(k).rocs_telemetry[1].llm_latency_us = None) =>
              logged[k].args.llm_latency_us = None

\* C40: every queued record and every written line is the record built from
\* the event as it was when log() was called, whatever the caller has done to
\* the event object since.
ValueHandOff ==
    /\ \A k \in 1..Len(rec_file) : rec_file[k] = BuiltRecord(k)
    /\ \A j \in 1..Len(rec_queue) :
          rec_queue[j].record = BuiltRecord(rec_queue[j].id)

ValueHandOffWitness ==
    /\ Len(rec_file) = 2
    /\ rec_queue = << >>
    /\ events[1] # logged[1].event
    /\ events[2] # logged[2].event
    /\ logged[1].event.outcome = "GUARDRAIL_VIOLATION_FATAL"
    /\ rec_file[1] = BuiltRecord(1)
    /\ rec_file[1] # RecordOf(events[1], logged[1].args)
    /\ rec_file[1].guardrail.violation_count = 1

====
